---- MODULE Spec2Model ----
(***************************************************************************)
(* Model of hyperspy/misc/date_time_tools.py: reading and writing the      *)
(* General.date / General.time / General.time_zone entries of a metadata   *)
(* tree, and the serial-date conversions.                                  *)
(*                                                                         *)
(* Python values are tagged records ([t |-> "None"], [t |-> "str", ...]).  *)
(* A Python str is a sequence of one-character strings, so that split,     *)
(* formatting and parsing are computed character by character.             *)
(***************************************************************************)
EXTENDS Integers, Sequences, FiniteSets, TLC

VARIABLES tree, last, res

vars == <<tree, last, res>>

(***************************************************************************)
(* Python values                                                           *)
(***************************************************************************)
PyNone == [t |-> "None"]

PyStr(s) == [t |-> "str", s |-> s]

\* bool(v) for the values the code tests: None and '' are falsy.
Truthy(v) == v # PyNone /\ v # PyStr(<<>>)

DigitChars == <<"0", "1", "2", "3", "4", "5", "6", "7", "8", "9">>

IsDigit(c) == \E i \in 1..10 : DigitChars[i] = c

DigitVal(c) == (CHOOSE i \in 1..10 : DigitChars[i] = c) - 1

AllDigits(s) == \A i \in 1..Len(s) : IsDigit(s[i])

\* int(s) of a string of decimal digits
RECURSIVE ParseInt(_)
ParseInt(s) ==
    IF s = <<>> THEN 0
    ELSE 10 * ParseInt(SubSeq(s, 1, Len(s) - 1)) + DigitVal(s[Len(s)])

\* '%02d' % n and '%04d' % n
Pad2(n) == <<DigitChars[((n \div 10) % 10) + 1], DigitChars[(n % 10) + 1]>>

Pad4(n) == Pad2(n \div 100) \o Pad2(n % 100)

\* c in s
Contains(s, c) == \E i \in 1..Len(s) : s[i] = c

\* s.split(c): the list of the parts of s between the occurrences of c
RECURSIVE Split(_, _)
Split(s, c) ==
    IF ~Contains(s, c) THEN <<s>>
    ELSE LET i == CHOOSE j \in 1..Len(s) :
                      s[j] = c /\ \A k \in 1..(j - 1) : s[k] # c
         IN  <<SubSeq(s, 1, i - 1)>> \o Split(SubSeq(s, i + 1, Len(s)), c)

\* '%s' % v
FormatS(v) ==
    IF v = PyNone THEN <<"N", "o", "n", "e">>
    ELSE v.s

(***************************************************************************)
(* datetime library: calendar arithmetic (proleptic Gregorian ordinals,    *)
(* day 1 = 0001-01-01), as datetime.date.toordinal / fromordinal do it.    *)
(***************************************************************************)
SecondsPerDay == 86400

IsLeap(y) == y % 4 = 0 /\ (y % 100 # 0 \/ y % 400 = 0)

DaysInMonth(y, m) ==
    IF m = 2 THEN (IF IsLeap(y) THEN 29 ELSE 28)
    ELSE IF m \in {4, 6, 9, 11} THEN 30 ELSE 31

DaysBeforeYear(y) ==
    LET p == y - 1
    IN  p * 365 + (p \div 4) - (p \div 100) + (p \div 400)

RECURSIVE DaysBeforeMonth(_, _)
DaysBeforeMonth(y, m) ==
    IF m = 1 THEN 0 ELSE DaysBeforeMonth(y, m - 1) + DaysInMonth(y, m - 1)

ToOrdinal(y, m, d) == DaysBeforeYear(y) + DaysBeforeMonth(y, m) + d

\* date.fromordinal(n): the (year, month, day) whose ordinal is n
FromOrdinal(n) ==
    LET n0     == n - 1
        n400   == n0 \div 146097
        r400   == n0 % 146097
        n100   == r400 \div 36524
        r100   == r400 % 36524
        n4     == r100 \div 1461
        r4     == r100 % 1461
        n1     == r4 \div 365
        r1     == r4 % 365
        year   == n400 * 400 + 1 + n100 * 100 + n4 * 4 + n1
    IN  IF n1 = 4 \/ n100 = 4
        THEN [y |-> year - 1, mo |-> 12, d |-> 31]
        ELSE LET month == CHOOSE m \in 1..12 :
                              /\ DaysBeforeMonth(year, m) <= r1
                              /\ r1 < DaysBeforeMonth(year, m) + DaysInMonth(year, m)
             IN  [y |-> year, mo |-> month,
                  d |-> r1 - DaysBeforeMonth(year, month) + 1]

(***************************************************************************)
(* datetime library: date, time and datetime objects and isoformat().      *)
(* Whole seconds only (microsecond = 0), so isoformat() prints no fraction.*)
(***************************************************************************)
Error(e) == [t |-> "error", err |-> e]

IsError(v) == v.t = "error"

\* a tzinfo whose tzname() is name (a str or None) and whose utcoffset() is
\* off minutes
TzInfo(name, off) == [t |-> "tz", name |-> name, off |-> off]

MkDate(y, mo, d) == [t |-> "date", y |-> y, mo |-> mo, d |-> d]

MkTime(h, mi, s) == [t |-> "time", h |-> h, mi |-> mi, s |-> s]

MkDatetime(date, time, tz) ==
    [t |-> "datetime", y |-> date.y, mo |-> date.mo, d |-> date.d,
     h |-> time.h, mi |-> time.mi, s |-> time.s, tz |-> tz]

\* dt.date(), dt.time() (the time without its tzinfo), dt.tzname()
DateOf(dt) == MkDate(dt.y, dt.mo, dt.d)

TimeOf(dt) == MkTime(dt.h, dt.mi, dt.s)

TzName(dt) == IF dt.tz = PyNone THEN PyNone ELSE dt.tz.name

date_isoformat(d) == Pad4(d.y) \o <<"-">> \o Pad2(d.mo) \o <<"-">> \o Pad2(d.d)

time_isoformat(x) == Pad2(x.h) \o <<":">> \o Pad2(x.mi) \o <<":">> \o Pad2(x.s)

\* the "+HH:MM" / "-HH:MM" that isoformat() appends for an aware datetime
OffsetStr(off) ==
    LET a == IF off < 0 THEN -off ELSE off
    IN  <<IF off < 0 THEN "-" ELSE "+">> \o Pad2(a \div 60) \o <<":">> \o Pad2(a % 60)

\* str(dt) in place of dt.isoformat(): a space between date and time
datetime_str(dt) ==
    date_isoformat(DateOf(dt)) \o <<" ">> \o time_isoformat(TimeOf(dt))
        \o (IF dt.tz = PyNone THEN <<>> ELSE OffsetStr(dt.tz.off))

datetime_isoformat(dt) ==
    date_isoformat(DateOf(dt)) \o <<"T">> \o time_isoformat(TimeOf(dt))
        \o (IF dt.tz = PyNone THEN <<>> ELSE OffsetStr(dt.tz.off))

\* x.isoformat() for a date, a time or a datetime
isoformat(x) ==
    IF x.t = "date" THEN date_isoformat(x)
    ELSE IF x.t = "time" THEN time_isoformat(x)
    ELSE datetime_isoformat(x)

(***************************************************************************)
(* Recognisers of the ISO 8601 extended forms YYYY-MM-DD, HH:MM:SS and     *)
(* +HH:MM / -HH:MM, used by the parsers below.                             *)
(***************************************************************************)
IsDateStr(s) ==
    /\ Len(s) = 10
    /\ s[5] = "-" /\ s[8] = "-"
    /\ AllDigits(SubSeq(s, 1, 4)) /\ AllDigits(SubSeq(s, 6, 7))
    /\ AllDigits(SubSeq(s, 9, 10))
    /\ ParseInt(SubSeq(s, 1, 4)) >= 1
    /\ ParseInt(SubSeq(s, 6, 7)) \in 1..12
    /\ ParseInt(SubSeq(s, 9, 10)) \in
           1..DaysInMonth(ParseInt(SubSeq(s, 1, 4)), ParseInt(SubSeq(s, 6, 7)))

IsTimeStr(s) ==
    /\ Len(s) = 8
    /\ s[3] = ":" /\ s[6] = ":"
    /\ AllDigits(SubSeq(s, 1, 2)) /\ AllDigits(SubSeq(s, 4, 5))
    /\ AllDigits(SubSeq(s, 7, 8))
    /\ ParseInt(SubSeq(s, 1, 2)) \in 0..23
    /\ ParseInt(SubSeq(s, 4, 5)) \in 0..59
    /\ ParseInt(SubSeq(s, 7, 8)) \in 0..59

IsOffsetStr(s) ==
    /\ Len(s) = 6
    /\ s[1] \in {"+", "-"}
    /\ s[4] = ":"
    /\ AllDigits(SubSeq(s, 2, 3)) /\ AllDigits(SubSeq(s, 5, 6))
    /\ ParseInt(SubSeq(s, 2, 3)) \in 0..23
    /\ ParseInt(SubSeq(s, 5, 6)) \in 0..59

DateFromStr(s) ==
    MkDate(ParseInt(SubSeq(s, 1, 4)), ParseInt(SubSeq(s, 6, 7)),
           ParseInt(SubSeq(s, 9, 10)))

TimeFromStr(s) ==
    MkTime(ParseInt(SubSeq(s, 1, 2)), ParseInt(SubSeq(s, 4, 5)),
           ParseInt(SubSeq(s, 7, 8)))

OffsetFromStr(s) ==
    LET m == ParseInt(SubSeq(s, 2, 3)) * 60 + ParseInt(SubSeq(s, 5, 6))
    IN  IF s[1] = "-" THEN -m ELSE m

(***************************************************************************)
(* Library calls made by the module: dateutil.parser.parse, pytz.timezone, *)
(* tzinfo.localize, pytz.FixedOffset and numpy.datetime64, each reduced to *)
(* what it does on the strings the module hands it.                        *)
(***************************************************************************)
\* The date dateutil fills in when the string holds a time only; the module
\* drops it again with .time().
Today == MkDate(2016, 12, 12)

Midnight == MkTime(0, 0, 0)

\* dateutil.parser.parse(s): <date>T<time>, <date>T<time><offset>, <time>
\* or <date>; a ParserError for anything else.
parser_parse(s) ==
    IF Contains(s, "T")
    THEN LET sp == Split(s, "T")
         IN  IF Len(sp) # 2 \/ ~IsDateStr(sp[1]) THEN Error("ParserError")
             ELSE IF IsTimeStr(sp[2])
             THEN MkDatetime(DateFromStr(sp[1]), TimeFromStr(sp[2]), PyNone)
             ELSE IF /\ Len(sp[2]) = 14
                     /\ IsTimeStr(SubSeq(sp[2], 1, 8))
                     /\ IsOffsetStr(SubSeq(sp[2], 9, 14))
             THEN MkDatetime(DateFromStr(sp[1]), TimeFromStr(SubSeq(sp[2], 1, 8)),
                             TzInfo(PyNone, OffsetFromStr(SubSeq(sp[2], 9, 14))))
             ELSE Error("ParserError")
    ELSE IF IsTimeStr(s) THEN MkDatetime(Today, TimeFromStr(s), PyNone)
    ELSE IF IsDateStr(s) THEN MkDatetime(DateFromStr(s), Midnight, PyNone)
    ELSE Error("ParserError")

\* The zones of the tz database that the tzname() values of the model name.
UTC == <<"U", "T", "C">>

EST == <<"E", "S", "T">>

ZoneOffset(name) == IF name = EST THEN -300 ELSE 0

\* pytz.timezone(zone): the named zone, or UnknownTimeZoneError
pytz_timezone(zone) ==
    IF zone = PyNone THEN Error("UnknownTimeZoneError")
    ELSE IF zone.t # "str" THEN Error("AttributeError")
    ELSE IF zone.s \in {UTC, EST} THEN TzInfo(zone, ZoneOffset(zone.s))
    ELSE Error("UnknownTimeZoneError")

\* time_zone.localize(dt): the naive dt with the zone attached
localize(zone, dt) == [dt EXCEPT !.tz = zone]

\* pytz.FixedOffset(offset): offset is a number of minutes; abs() of anything
\* else is a TypeError.
pytz_FixedOffset(offset) ==
    IF offset.t # "int" THEN Error("TypeError")
    ELSE IF offset.v >= 1440 \/ offset.v <= -1440 THEN Error("ValueError")
    ELSE TzInfo(PyNone, offset.v)

\* '%s' % a pytz.FixedOffset object: its repr, 'pytz.FixedOffset(n)'
FixedOffsetStr(fo) ==
    <<"p", "y", "t", "z", ".", "F", "i", "x", "e", "d", "O", "f", "f", "s",
      "e", "t", "(">> \o (IF fo.off < 0 THEN <<"-">> ELSE <<>>)
      \o Pad4(IF fo.off < 0 THEN -fo.off ELSE fo.off) \o <<")">>

\* numpy.datetime64(s): an ISO 8601 date and time, or ValueError
np_datetime64(s) ==
    LET sp == Split(s, "T")
    IN  IF Len(sp) = 2 /\ IsDateStr(sp[1]) /\ IsTimeStr(sp[2])
        THEN [t |-> "datetime64", y |-> DateFromStr(sp[1]).y,
              mo |-> DateFromStr(sp[1]).mo, d |-> DateFromStr(sp[1]).d,
              h |-> TimeFromStr(sp[2]).h, mi |-> TimeFromStr(sp[2]).mi,
              s |-> TimeFromStr(sp[2]).s]
        ELSE Error("ValueError")

(***************************************************************************)
(* The metadata tree (an external collaborator): a mapping from dotted     *)
(* paths to values, with has_item, item access, set_item and del.          *)
(***************************************************************************)
has_item(md, path) == path \in DOMAIN md

set_item(md, path, v) ==
    [k \in DOMAIN md \cup {path} |-> IF k = path THEN v ELSE md[k]]

del_item(md, path) == [k \in DOMAIN md \ {path} |-> md[k]]

(***************************************************************************)
(* get_date_time_from_metadata(metadata, formatting)                       *)
(***************************************************************************)
Return(v) == [t |-> "return", v |-> v]

\* What the body up to the formatting leaves: the parsed dt with the raw
\* date and time, an early return, or the error raised.
Parsed(dt, date, time) == [t |-> "parsed", dt |-> dt, date |-> date, time |-> time]

\* lines 70-77: the time zone of the tree applied to the parsed dt
apply_time_zone(md, dt, date, time) ==
    LET zone == pytz_timezone(md["General.time_zone"])
    IN  IF ~IsError(zone) THEN localize(zone, dt)
        ELSE IF zone.err # "UnknownTimeZoneError" THEN zone
        ELSE LET time_zone_offset == pytz_FixedOffset(md["General.time_zone"])
             IN  IF IsError(time_zone_offset) THEN time_zone_offset
                 ELSE parser_parse(FormatS(date) \o <<"T">> \o FormatS(time)
                                       \o FixedOffsetStr(time_zone_offset))

\* read_date_time reading General.date without asking has_item first
read_date_time_unguarded(md) ==
    IF ~has_item(md, "General.date") THEN Error("AttributeError")
    ELSE LET date == md["General.date"]
             time == IF has_item(md, "General.time") THEN md["General.time"]
                     ELSE PyNone
         IN  IF Truthy(date) /\ Truthy(time)
             THEN LET dt == parser_parse(FormatS(date) \o <<"T">> \o FormatS(time))
                  IN  IF IsError(dt) THEN dt
                      ELSE IF has_item(md, "General.time_zone")
                      THEN LET dz == apply_time_zone(md, dt, date, time)
                           IN  IF IsError(dz) THEN dz ELSE Parsed(dz, date, time)
                      ELSE Parsed(dt, date, time)
             ELSE IF Truthy(date) /\ ~Truthy(time)
             THEN LET dt == parser_parse(FormatS(date))
                  IN  IF IsError(dt) THEN dt ELSE Parsed(DateOf(dt), date, time)
             ELSE Return(PyNone)

\* lines 63-83
read_date_time(md) ==
    LET date == IF has_item(md, "General.date") THEN md["General.date"] ELSE PyNone
        time == IF has_item(md, "General.time") THEN md["General.time"] ELSE PyNone
    IN  IF Truthy(date) /\ Truthy(time)
        THEN LET dt == parser_parse(FormatS(date) \o <<"T">> \o FormatS(time))
             IN  IF IsError(dt) THEN dt
                 ELSE IF has_item(md, "General.time_zone")
                 THEN LET dz == apply_time_zone(md, dt, date, time)
                      IN  IF IsError(dz) THEN dz ELSE Parsed(dz, date, time)
                 ELSE Parsed(dt, date, time)
        ELSE IF ~Truthy(date) /\ Truthy(time)
        THEN LET dt == parser_parse(FormatS(time))
             IN  IF IsError(dt) THEN dt ELSE Parsed(TimeOf(dt), date, time)
        ELSE IF Truthy(date) /\ ~Truthy(time)
        THEN LET dt == parser_parse(FormatS(date))
             IN  IF IsError(dt) THEN dt ELSE Parsed(DateOf(dt), date, time)
        ELSE Return(PyNone)

\* format_result with res bound to dt before the three tests
format_result_default_dt(p, formatting) ==
    IF formatting = "ISO" THEN Return(PyStr(isoformat(p.dt)))
    ELSE IF formatting = "datetime64"
    THEN LET r == np_datetime64(FormatS(p.date) \o <<"T">> \o FormatS(p.time))
         IN  IF IsError(r) THEN r ELSE Return(r)
    ELSE Return(p.dt)

\* lines 85-93: res is bound by one of the three tests or not at all, and
\* "return res" of an unbound res raises UnboundLocalError.
format_result(p, formatting) ==
    IF formatting = "ISO" THEN Return(PyStr(isoformat(p.dt)))
    ELSE IF formatting = "datetime" THEN Return(p.dt)
    ELSE IF formatting = "datetime64"
    THEN LET r == np_datetime64(FormatS(p.date) \o <<"T">> \o FormatS(p.time))
         IN  IF IsError(r) THEN r ELSE Return(r)
    ELSE Error("UnboundLocalError")

get_date_time_from_metadata(md, formatting) ==
    LET p == read_date_time(md)
    IN  IF p.t = "parsed" THEN format_result(p, formatting) ELSE p

(***************************************************************************)
(* update_date_time_in_metadata(dt, metadata)                              *)
(***************************************************************************)
Components(date, time, time_zone) ==
    [t |-> "components", date |-> date, time |-> time, time_zone |-> time_zone]

\* split_iso_string keeping sp[1] whole as the time
split_iso_string_keep_offset(dt) ==
    LET sp == Split(dt.s, "T")
    IN  IF Len(sp) < 2 THEN Error("IndexError")
        ELSE IF Contains(sp[2], "+")
        THEN Components(PyStr(sp[1]), PyStr(sp[2]),
                        PyStr(<<"+">> \o Split(sp[2], "+")[2]))
        ELSE IF Contains(sp[2], "-")
        THEN Components(PyStr(sp[1]), PyStr(sp[2]),
                        PyStr(<<"-">> \o Split(sp[2], "-")[2]))
        ELSE Components(PyStr(sp[1]), PyStr(sp[2]), PyNone)

\* lines 123-132: an ISO string split by hand
split_iso_string(dt) ==
    LET sp == Split(dt.s, "T")
    IN  IF Len(sp) < 2 THEN Error("IndexError")
        ELSE IF Contains(sp[2], "+")
        THEN Components(PyStr(sp[1]), PyStr(Split(sp[2], "+")[1]),
                        PyStr(<<"+">> \o Split(sp[2], "+")[2]))
        ELSE IF Contains(sp[2], "-")
        THEN Components(PyStr(sp[1]), PyStr(Split(sp[2], "-")[1]),
                        PyStr(<<"-">> \o Split(sp[2], "-")[2]))
        ELSE Components(PyStr(sp[1]), PyStr(sp[2]), PyNone)

\* lines 133-137: a datetime.datetime taken apart
split_datetime(dt) ==
    Components(PyStr(date_isoformat(DateOf(dt))),
               PyStr(time_isoformat(TimeOf(dt))),
               IF Truthy(TzName(dt)) THEN TzName(dt) ELSE PyNone)

\* lines 122-137; for any other kind of dt neither branch binds date, and
\* line 139 raises UnboundLocalError.
date_time_components(dt) ==
    IF dt.t = "str" THEN split_iso_string(dt)
    ELSE IF dt.t = "datetime" THEN split_datetime(dt)
    ELSE Error("UnboundLocalError")

\* store_components without lines 143-144: a stale time zone stays
store_components_keep_stale(md, c) ==
    LET md1 == set_item(md, "General.date", c.date)
        md2 == set_item(md1, "General.time", c.time)
    IN  IF Truthy(c.time_zone)
        THEN set_item(md2, "General.time_zone", c.time_zone)
        ELSE md2

\* lines 139-144
store_components(md, c) ==
    LET md1 == set_item(md, "General.date", c.date)
        md2 == set_item(md1, "General.time", c.time)
        md3 == IF Truthy(c.time_zone)
               THEN set_item(md2, "General.time_zone", c.time_zone)
               ELSE md2
    IN  IF has_item(md3, "General.time_zone") /\ ~Truthy(c.time_zone)
        THEN del_item(md3, "General.time_zone")
        ELSE md3

\* update_date_time_in_metadata assigning a fresh General node instead of
\* setting its three items
update_replacing_general(dt, m, heap) ==
    LET c == date_time_components(dt)
    IN  IF IsError(c) THEN [t |-> "error", err |-> c.err, heap |-> heap]
        ELSE [t |-> "return", v |-> m,
              heap |-> [heap EXCEPT ![m] =
                  store_components([k \in {} |-> PyNone], c)]]

\* The call on the tree object m of the heap: the heap it leaves and the
\* object it returns (line 145), or the error raised.
update_date_time_in_metadata(dt, m, heap) ==
    LET c == date_time_components(dt)
    IN  IF IsError(c) THEN [t |-> "error", err |-> c.err, heap |-> heap]
        ELSE [t |-> "return", v |-> m,
              heap |-> [heap EXCEPT ![m] = store_components(heap[m], c)]]

(***************************************************************************)
(* Serial dates.  A serial date is a float counting days.  The model keeps *)
(* it exactly, as Serial(days, seconds): the number days + seconds/86400   *)
(* with days its floor and seconds in 0..86399, which is the precision     *)
(* round() at line 155 recovers from the float.                            *)
(***************************************************************************)
tzutc == TzInfo(PyStr(UTC), 0)

\* a datetime.timedelta, normalised as the library does: seconds in 0..86399
TimeDelta(days, seconds) ==
    [days |-> days + (seconds \div SecondsPerDay), seconds |-> seconds % SecondsPerDay]

SecondOfDay(dt) == dt.h * 3600 + dt.mi * 60 + dt.s

\* a - b for two aware datetimes: the difference of the instants
DatetimeSub(a, b) ==
    TimeDelta(ToOrdinal(a.y, a.mo, a.d) - ToOrdinal(b.y, b.mo, b.d),
              (SecondOfDay(a) - a.tz.off * 60) - (SecondOfDay(b) - b.tz.off * 60))

\* dt + delta, in the zone of dt
DatetimeAdd(dt, delta) ==
    LET sum == TimeDelta(ToOrdinal(dt.y, dt.mo, dt.d) + delta.days,
                         SecondOfDay(dt) + delta.seconds)
    IN  MkDatetime(FromOrdinal(sum.days),
                   MkTime(sum.seconds \div 3600, (sum.seconds \div 60) % 60,
                          sum.seconds % 60),
                   dt.tz)

\* dt.astimezone(tz): the same instant in the zone tz
astimezone(dt, tz) ==
    DatetimeAdd([dt EXCEPT !.tz = tz], TimeDelta(0, (tz.off - dt.tz.off) * 60))

\* lines 154 and 174
origin == MkDatetime(MkDate(1899, 12, 30), Midnight, tzutc)

Serial(days, seconds) == [days |-> days, seconds |-> seconds]

\* lines 170-176
datetime_to_serial_date(dt) ==
    LET dt1   == IF TzName(dt) = PyNone THEN [dt EXCEPT !.tz = tzutc] ELSE dt
        delta == DatetimeSub(dt1, origin)
    IN  Serial(delta.days, delta.seconds)

\* int(serial): the float truncated towards zero
IntPart(serial) ==
    IF serial.days >= 0 \/ serial.seconds = 0 THEN serial.days
    ELSE serial.days + 1

\* round(serial % 1.0 * 86400): serial % 1.0 is serial - floor(serial), in
\* [0, 1), for either sign of serial
RoundedSeconds(serial) == serial.seconds

\* lines 148-159, with tzlocal the zone of the executing system.  The third
\* argument of timedelta, secs / 1E6 microseconds, is less than half a
\* microsecond and is rounded to 0.
serial_date_to_ISO_format(serial, tzlocal) ==
    LET secs     == RoundedSeconds(serial)
        micro    == (2 * secs + 1000000) \div 2000000
        delta    == TimeDelta(IntPart(serial), secs + (micro \div 1000000))
        dt_utc   == DatetimeAdd(origin, delta)
        dt_local == astimezone(dt_utc, tzlocal)
    IN  <<PyStr(date_isoformat(DateOf(dt_local))),
          PyStr(time_isoformat(TimeOf(dt_local))), TzName(dt_local)>>

(***************************************************************************)
(* Inputs of the model                                                     *)
(***************************************************************************)
\* the two metadata tree objects the calls are made on
Trees == {"m1", "m2"}

\* serial dates are taken within this many days of the origin
MaxDayOffset == 2

Title == PyStr(<<"N", "I", "O">>)

Filename == PyStr(<<"e", "x", "1", ".", "m", "s", "a">>)

MinusFive == <<"-", "0", "5", ":", "0", "0">>

PlusOne == <<"+", "0", "1", ":", "0", "0">>

\* the tree of the docstring example, with a time zone added
ExampleTree(zone) ==
    [k \in {"General.date", "General.time", "General.time_zone",
            "General.title", "General.original_filename"} |->
        IF k = "General.date" THEN PyStr(date_isoformat(MkDate(1991, 10, 1)))
        ELSE IF k = "General.time" THEN PyStr(time_isoformat(MkTime(12, 0, 0)))
        ELSE IF k = "General.time_zone" THEN PyStr(zone)
        ELSE IF k = "General.title" THEN Title
        ELSE Filename]

\* lines 47-52: the tree of the docstring, which has no time zone
DocstringTree ==
    [k \in {"General.date", "General.time", "General.title",
            "General.original_filename"} |-> ExampleTree(UTC)[k]]

DateTimeKeys == {"General.date", "General.time", "General.time_zone"}

OtherKeys == {"General.title", "General.original_filename"}

\* the trees a call may find: the example with any of date, time and
\* time_zone missing, and the empty tree
InitTrees ==
    {[k \in (K \cup OtherKeys) |-> ExampleTree(z)[k]] :
        K \in SUBSET DateTimeKeys, z \in {UTC, MinusFive}}
    \cup {[k \in {} |-> PyNone]}

DateTimes ==
    {<<MkDate(2016, 12, 12), MkTime(12, 12, 12)>>,
     <<MkDate(1991, 10, 1), MkTime(12, 0, 0)>>}

Offsets == {<<>>, MinusFive, PlusOne}

Zones == {PyNone, tzutc, TzInfo(PyStr(EST), ZoneOffset(EST))}

\* An input of update_date_time_in_metadata: py is the value passed; date,
\* time and time_zone are what it was built from.
StrInput(d, x, off) ==
    [kind |-> "str", date |-> PyStr(date_isoformat(d)),
     time |-> PyStr(time_isoformat(x)),
     time_zone |-> IF off = <<>> THEN PyNone ELSE PyStr(off),
     py |-> PyStr(date_isoformat(d) \o <<"T">> \o time_isoformat(x) \o off)]

DateOnlyInput(d) ==
    [kind |-> "date_str", date |-> PyStr(date_isoformat(d)), time |-> PyNone,
     time_zone |-> PyNone, py |-> PyStr(date_isoformat(d))]

DatetimeInput(d, x, tz) ==
    [kind |-> "datetime", date |-> PyStr(date_isoformat(d)),
     time |-> PyStr(time_isoformat(x)),
     time_zone |-> IF tz = PyNone THEN PyNone ELSE tz.name,
     py |-> MkDatetime(d, x, tz)]

Datetime64Input(d, x) ==
    [kind |-> "datetime64", date |-> PyStr(date_isoformat(d)),
     time |-> PyStr(time_isoformat(x)), time_zone |-> PyNone,
     py |-> [t |-> "datetime64", y |-> d.y, mo |-> d.mo, d |-> d.d,
             h |-> x.h, mi |-> x.mi, s |-> x.s]]

UpdateInputs ==
    {StrInput(p[1], p[2], off) : p \in DateTimes, off \in Offsets}
    \cup {DatetimeInput(p[1], p[2], tz) : p \in DateTimes, tz \in Zones}
    \cup {Datetime64Input(MkDate(2016, 12, 12), MkTime(12, 12, 12))}
    \cup {DateOnlyInput(MkDate(2016, 12, 12))}

\* the documented values of formatting, and two others
Documented == {"ISO", "datetime", "datetime64"}

Formattings == Documented \cup {"iso", "date"}

SecondsOfDay == {0, 1, 43200, 86399}

\* UTC date/times around the origin, aware and naive
SerialInputs ==
    {[DatetimeAdd(origin, TimeDelta(k, s)) EXCEPT !.tz = z] :
        k \in (-MaxDayOffset)..MaxDayOffset, s \in SecondsOfDay, z \in {tzutc, PyNone}}

LocalZones == {tzutc, TzInfo(PyStr(EST), ZoneOffset(EST))}

(***************************************************************************)
(* The state machine: tree is the heap of metadata trees, res the record   *)
(* of the last call (what it was given and how it ended; for an update     *)
(* also prev, the input of the update before it on the same tree), last[m] *)
(* the input of the last update call that completed on tree m.             *)
(***************************************************************************)
NoCall == [op |-> "none"]

NoWrite == [kind |-> "none"]

Init ==
    /\ tree \in {[m \in Trees |-> IF m = "m1" THEN t1 ELSE DocstringTree] :
                    t1 \in InitTrees}
    /\ last = [m \in Trees |-> NoWrite]
    /\ res = NoCall

\* metadata = update_date_time_in_metadata(dt, metadata) on tree m
Update(m, in) ==
    LET r == update_date_time_in_metadata(in.py, m, tree)
    IN  /\ tree' = r.heap
        /\ last' = IF r.t = "return" THEN [last EXCEPT ![m] = in] ELSE last
        /\ res' = [op |-> "update", m |-> m, in |-> in, prev |-> last[m],
                   out |-> IF r.t = "return" THEN Return(r.v) ELSE Error(r.err)]

\* get_date_time_from_metadata(metadata, formatting) on tree m
Get(m, formatting) ==
    /\ res' = [op |-> "get", m |-> m, formatting |-> formatting,
               out |-> get_date_time_from_metadata(tree[m], formatting)]
    /\ UNCHANGED <<tree, last>>

\* serial = datetime_to_serial_date(dt)
ToSerial(dt) ==
    /\ res' = [op |-> "to_serial", dt |-> dt, serial |-> datetime_to_serial_date(dt)]
    /\ UNCHANGED <<tree, last>>

\* serial_date_to_ISO_format(serial) of the serial date just computed, on a
\* system whose local zone is tzlocal
ToISO(tzlocal) ==
    /\ res.op = "to_serial"
    /\ res' = [op |-> "to_iso", dt |-> res.dt, serial |-> res.serial,
               tzlocal |-> tzlocal,
               out |-> serial_date_to_ISO_format(res.serial, tzlocal)]
    /\ UNCHANGED <<tree, last>>

\* calls that read and write the metadata trees
Next ==
    \/ \E m \in Trees, in \in UpdateInputs : Update(m, in)
    \/ \E m \in Trees, formatting \in Formattings : Get(m, formatting)

Spec == Init /\ [][Next]_vars

\* calls of the serial date conversions
SerialNext ==
    \/ \E dt \in SerialInputs : ToSerial(dt)
    \/ \E tzlocal \in LocalZones : ToISO(tzlocal)

SerialSpec == Init /\ [][SerialNext]_vars

(***************************************************************************)
(* Properties                                                              *)
(***************************************************************************)
HasDate(m) == has_item(tree[m], "General.date")

HasTime(m) == has_item(tree[m], "General.time")

HasZone(m) == has_item(tree[m], "General.time_zone")

Completed == res.op = "update" /\ res.out.t = "return"

\* C1: after any sequence of update calls given ISO strings or datetimes,
\* General.time_zone is present exactly when the most recent call
\* determined a time zone, and then it holds that call's time zone; a
\* write without a time zone after one with a time zone leaves none behind.
TimeZoneTracksLastWrite ==
    \A m \in Trees :
        last[m].kind \in {"str", "datetime"} =>
            IF last[m].time_zone = PyNone THEN ~HasZone(m)
            ELSE HasZone(m) /\ tree[m]["General.time_zone"] = last[m].time_zone

\* a write without a time zone has just followed a write with one
StaleTimeZoneRemoved ==
    /\ Completed
    /\ res.prev.kind \in {"str", "datetime"}
    /\ res.prev.time_zone # PyNone
    /\ res.in.time_zone = PyNone
    /\ ~HasZone(res.m)

\* C2: update_date_time_in_metadata changes only General.date, General.time
\* and General.time_zone of the tree it is given and returns that very
\* tree; get_date_time_from_metadata changes no entry of any tree, whatever
\* its formatting and however it ends.
OnlyDateTimeEntriesChange ==
    [][/\ \A m \in Trees :
              \A k \in (DOMAIN tree[m] \cup DOMAIN tree'[m]) \ DateTimeKeys :
                  /\ k \in DOMAIN tree[m]
                  /\ k \in DOMAIN tree'[m]
                  /\ tree'[m][k] = tree[m][k]
       /\ res'.op = "update" =>
              /\ \A m \in Trees \ {res'.m} : tree'[m] = tree[m]
              /\ res'.out.t = "return" => res'.out.v = res'.m
       /\ res'.op = "get" => tree' = tree]_vars

\* an update has rewritten date, time and time zone of a tree that holds a
\* title and a file name
UpdatedTreeKeepsTitle ==
    /\ Completed
    /\ res.prev.kind = "none"
    /\ res.in.time_zone # PyNone
    /\ tree[res.m]["General.date"] # DocstringTree["General.date"]
    /\ has_item(tree[res.m], "General.title")
    /\ tree[res.m]["General.title"] = Title
    /\ tree[res.m]["General.original_filename"] = Filename

AbsentDateTimeReturnsNone ==
    (res.op = "get" /\ ~HasDate(res.m) /\ ~HasTime(res.m)) =>
        res.out = Return(PyNone)

\* None came back for an undocumented formatting from a tree that holds a
\* time zone only
NoneFromZoneOnlyTree ==
    /\ res.op = "get"
    /\ ~HasDate(res.m) /\ ~HasTime(res.m) /\ HasZone(res.m)
    /\ res.formatting \notin Documented
    /\ res.out = Return(PyNone)

\* C5: with formatting 'ISO', a tree with a canonical ISO date and time and
\* no time zone reads as the string <date>T<time>.
IsoReadJoinsDateAndTime ==
    (/\ res.op = "get" /\ res.formatting = "ISO"
     /\ HasDate(res.m) /\ HasTime(res.m) /\ ~HasZone(res.m)) =>
        res.out = Return(PyStr(tree[res.m]["General.date"].s \o <<"T">>
                                   \o tree[res.m]["General.time"].s))

\* the docstring example has been read: '1991-10-01T12:00:00'
DocstringExampleRead ==
    /\ res.op = "get" /\ res.formatting = "ISO"
    /\ ~HasZone(res.m)
    /\ tree[res.m] = DocstringTree
    /\ res.out = Return(PyStr(<<"1", "9", "9", "1", "-", "1", "0", "-", "0", "1", "T",
                                "1", "2", ":", "0", "0", ":", "0", "0">>))

\* C6: when only one of General.date and General.time is present, the read
\* returns a value degraded to that component for each of the three
\* documented formattings, whatever General.time_zone holds.
DegradedValueForEachFormatting ==
    (/\ res.op = "get" /\ res.formatting \in Documented
     /\ HasDate(res.m) # HasTime(res.m)) =>
        /\ res.out.t = "return"
        /\ res.out.v # PyNone

\* C7: a read with a formatting other than the three documented ones, on a
\* tree that has a date or a time, ends in an error and returns no value.
UnknownFormattingIsAnError ==
    (/\ res.op = "get" /\ res.formatting \notin Documented
     /\ (HasDate(res.m) \/ HasTime(res.m))) =>
        IsError(res.out)

\* "return res" failed for an undocumented formatting on a tree with date
\* and time
UnboundResRaised ==
    /\ res.op = "get" /\ res.formatting \notin Documented
    /\ HasDate(res.m) /\ HasTime(res.m)
    /\ res.out = Error("UnboundLocalError")

\* the instant a (date, time) pair of ISO strings denotes in UTC
Denoted(out) ==
    MkDatetime(DateFromStr(out[1].s), TimeFromStr(out[2].s), tzutc)

\* C8: with the local zone UTC, for every UTC date/time dt of whole seconds,
\* after and before the origin, the strings that
\* serial_date_to_ISO_format(datetime_to_serial_date(dt)) returns denote dt
\* to within 1 second.
SerialRoundTrip ==
    (res.op = "to_iso" /\ res.tzlocal = tzutc) =>
        LET delta == DatetimeSub(Denoted(res.out), [res.dt EXCEPT !.tz = tzutc])
        IN  delta.days * SecondsPerDay + delta.seconds \in -1..1

\* C9: a read after the write of <date>T<time><sign>hh:mm takes the stored
\* General.time_zone as that fixed offset, so that with formatting 'ISO' it
\* returns the string written.
OffsetWriteThenIsoRead ==
    (/\ res.op = "get" /\ res.formatting = "ISO"
     /\ last[res.m].kind = "str" /\ last[res.m].time_zone # PyNone) =>
        res.out = Return(last[res.m].py)

\* C10: the update accepts an ISO 8601 string, a datetime.datetime and a
\* numpy.datetime64: it completes and sets General.date and General.time to
\* the date and time of dt.
UpdateAcceptsDocumentedKinds ==
    (res.op = "update" /\ res.in.kind \in {"str", "datetime", "datetime64"}) =>
        /\ res.out.t = "return"
        /\ tree[res.m]["General.date"] = res.in.date
        /\ tree[res.m]["General.time"] = res.in.time

====
